---- MODULE Spec2Model ----
(***************************************************************************)
(* Model of the SRLDC daily-report ingestion command                       *)
(* (srldc/management/commands/srldc_project.py, srldc/models.py).          *)
(*                                                                         *)
(* Text is modelled as TLA+ strings, read character by character with      *)
(* SubSeq.  A cell of a pandas frame is a tagged value: a string cell      *)
(* S("...") or the missing value NaN.  A Python float is an exact decimal  *)
(* m * 10^e (exact for the short literals used here).  A frame keeps its   *)
(* column labels, its row index labels and its rows, because the code      *)
(* mixes label-based (iterrows) and position-based (iloc) access.          *)
(***************************************************************************)
EXTENDS Integers, Sequences, FiniteSets, TLC

(***************************************************************************)
(* Characters and strings                                                  *)
(***************************************************************************)
Ch(s, i) == SubSeq(s, i, i)

StrTail(s) == SubSeq(s, 2, Len(s))

\* Python's str.strip() and the regex class \s agree on these characters.
IsSpace(c) == c \in {" ", "\t", "\n", "\r", "\f"}

IsDigit(c) == c \in {"0", "1", "2", "3", "4", "5", "6", "7", "8", "9"}

LowerAlpha == "abcdefghijklmnopqrstuvwxyz"

UpperAlpha == "ABCDEFGHIJKLMNOPQRSTUVWXYZ"

SetMin(A) == CHOOSE a \in A : \A b \in A : a <= b

SetMax(A) == CHOOSE a \in A : \A b \in A : a >= b

\* The upper-case letter of each lower-case letter, and the converse.
UPPER_OF ==
    [c \in {Ch(LowerAlpha, i) : i \in 1..26} |->
        Ch(UpperAlpha, SetMin({i \in 1..26 : Ch(LowerAlpha, i) = c}))]

LOWER_OF ==
    [c \in {Ch(UpperAlpha, i) : i \in 1..26} |->
        Ch(LowerAlpha, SetMin({i \in 1..26 : Ch(UpperAlpha, i) = c}))]

UpperCh(c) == IF c \in DOMAIN UPPER_OF THEN UPPER_OF[c] ELSE c

LowerCh(c) == IF c \in DOMAIN LOWER_OF THEN LOWER_OF[c] ELSE c

RECURSIVE Upper(_)
\* str.upper()
Upper(s) == IF s = "" THEN "" ELSE UpperCh(Ch(s, 1)) \o Upper(StrTail(s))

RECURSIVE Lower(_)
\* str.lower()
Lower(s) == IF s = "" THEN "" ELSE LowerCh(Ch(s, 1)) \o Lower(StrTail(s))

\* str.strip()
Strip(s) ==
    LET ns == {i \in 1..Len(s) : ~IsSpace(Ch(s, i))}
    IN  IF ns = {} THEN "" ELSE SubSeq(s, SetMin(ns), SetMax(ns))

RECURSIVE RemoveChar(_, _)
\* str.replace(c, '') for a one-character c
RemoveChar(s, c) ==
    IF s = "" THEN ""
    ELSE IF Ch(s, 1) = c THEN RemoveChar(StrTail(s), c)
    ELSE Ch(s, 1) \o RemoveChar(StrTail(s), c)

RECURSIVE ReplaceChar(_, _, _)
\* str.replace(c, d) for one-character c and d
ReplaceChar(s, c, d) ==
    IF s = "" THEN ""
    ELSE (IF Ch(s, 1) = c THEN d ELSE Ch(s, 1)) \o ReplaceChar(StrTail(s), c, d)

HasChar(s, c) == \E i \in 1..Len(s) : Ch(s, i) = c

\* Number of whitespace characters of s from position j on, up to the first
\* character that is none.
SpaceRun(s, j) ==
    LET stop == {i \in j..Len(s) : ~IsSpace(Ch(s, i))}
    IN  IF stop = {} THEN Len(s) + 1 - j ELSE SetMin(stop) - j

RECURSIVE CollapseWS(_)
\* str.replace(r'\s+', ' ', regex=True)
CollapseWS(s) ==
    IF s = "" THEN ""
    ELSE IF IsSpace(Ch(s, 1))
         THEN " " \o CollapseWS(SubSeq(s, 1 + SpaceRun(s, 1), Len(s)))
         ELSE Ch(s, 1) \o CollapseWS(StrTail(s))

StartsWith(s, p) == Len(p) <= Len(s) /\ SubSeq(s, 1, Len(p)) = p

(***************************************************************************)
(* The regular expressions of the markers.  A pattern is a sequence of     *)
(* elements: a literal text (matched without regard to case, since the     *)
(* code passes case=False), \s*, an optional character of a class, or .*   *)
(* Series.str.contains searches: the pattern may match anywhere in a cell. *)
(***************************************************************************)
Lit(t) == [k |-> "lit", t |-> t]

WS == [k |-> "ws"]

OptCh(cs) == [k |-> "opt", cs |-> cs]

AnyRun == [k |-> "any"]

\* Number of characters from position j on that "." matches (all but \n).
DotRun(s, j) ==
    LET stop == {i \in j..Len(s) : Ch(s, i) = "\n"}
    IN  IF stop = {} THEN Len(s) + 1 - j ELSE SetMin(stop) - j

RECURSIVE MatchHere(_, _, _, _)
\* Whether elements p.. of pat match s from position j on; s is in lower
\* case, and so a literal is compared in lower case.
MatchHere(pat, p, s, j) ==
    IF p > Len(pat) THEN TRUE
    ELSE LET e == pat[p] IN
         CASE e.k = "lit" ->
                /\ j + Len(e.t) - 1 <= Len(s)
                /\ SubSeq(s, j, j + Len(e.t) - 1) = Lower(e.t)
                /\ MatchHere(pat, p + 1, s, j + Len(e.t))
           [] e.k = "ws" ->
                \E n \in 0..SpaceRun(s, j) : MatchHere(pat, p + 1, s, j + n)
           [] e.k = "opt" ->
                \/ MatchHere(pat, p + 1, s, j)
                \/ /\ j <= Len(s)
                   /\ Ch(s, j) \in e.cs
                   /\ MatchHere(pat, p + 1, s, j + 1)
           [] e.k = "any" ->
                \E n \in 0..DotRun(s, j) : MatchHere(pat, p + 1, s, j + n)

\* re.search(pat, s, re.IGNORECASE) is not None
Contains(pat, s) ==
    LET low == Lower(s)
    IN  \E j \in 1..(Len(low) + 1) : MatchHere(pat, 1, low, j)

(***************************************************************************)
(* Values: cells, converted values, floats                                 *)
(***************************************************************************)
\* pandas' missing value (a float nan)
NaN == [kind |-> "nan"]

\* Python's None
None == [kind |-> "none"]

\* a str
S(t) == [kind |-> "str", s |-> t]

\* a finite float, m * 10^e, with m not a multiple of 10 unless it is 0
Num(m, e) == [kind |-> "num", m |-> m, e |-> e]

\* float('inf') and float('-inf')
Inf(neg) == [kind |-> "inf", neg |-> neg]

IsStr(v) == v.kind = "str"

\* pd.isna(value) or value is None
IsNA(v) == v.kind \in {"nan", "none"}

RECURSIVE Normalize(_, _)
Normalize(m, e) ==
    IF m = 0 THEN Num(0, 0)
    ELSE IF m % 10 = 0 THEN Normalize(m \div 10, e + 1)
    ELSE Num(m, e)

DigitVal(c) == SetMin({d \in 0..9 : Ch("0123456789", d + 1) = c})

RECURSIVE DigitsToInt(_, _)
\* The value of a digit part, its underscores skipped; acc is the value so far.
DigitsToInt(s, acc) ==
    IF s = "" THEN acc
    ELSE IF Ch(s, 1) = "_" THEN DigitsToInt(StrTail(s), acc)
    ELSE DigitsToInt(StrTail(s), 10 * acc + DigitVal(Ch(s, 1)))

\* digitpart ::= digit (["_"] digit)*
IsDigitPart(s) ==
    /\ s # ""
    /\ \A i \in 1..Len(s) : IsDigit(Ch(s, i)) \/ Ch(s, i) = "_"
    /\ IsDigit(Ch(s, 1)) /\ IsDigit(Ch(s, Len(s)))
    /\ \A i \in 1..(Len(s) - 1) : ~(Ch(s, i) = "_" /\ Ch(s, i + 1) = "_")

CountDigits(s) == Cardinality({i \in 1..Len(s) : IsDigit(Ch(s, i))})

\* The unsigned decimal literal s (no exponent): None when s is none.
ParseDecimal(s) ==
    LET dots == {i \in 1..Len(s) : Ch(s, i) = "."} IN
    IF dots = {}
    THEN IF IsDigitPart(s) THEN Normalize(DigitsToInt(s, 0), 0) ELSE None
    ELSE IF Cardinality(dots) > 1 THEN None
    ELSE LET d == SetMin(dots)
             ip == SubSeq(s, 1, d - 1)
             fp == SubSeq(s, d + 1, Len(s))
         IN  IF /\ (ip = "" \/ IsDigitPart(ip))
                /\ (fp = "" \/ IsDigitPart(fp))
                /\ ~(ip = "" /\ fp = "")
             THEN Normalize(DigitsToInt(ip \o fp, 0), 0 - CountDigits(fp))
             ELSE None

\* An optionally signed integer literal (an exponent): None when s is none.
ParseExponent(s) ==
    LET neg  == s # "" /\ Ch(s, 1) = "-"
        body == IF s # "" /\ Ch(s, 1) \in {"+", "-"} THEN StrTail(s) ELSE s
    IN  IF IsDigitPart(body)
        THEN Num(IF neg THEN 0 - DigitsToInt(body, 0) ELSE DigitsToInt(body, 0), 0)
        ELSE None

\* The unsigned float literal s: inf, infinity, nan, or a decimal with an
\* optional exponent.
ParseUnsigned(s) ==
    LET es == {i \in 1..Len(s) : Ch(s, i) \in {"e", "E"}} IN
    IF Lower(s) \in {"inf", "infinity"} THEN Inf(FALSE)
    ELSE IF Lower(s) = "nan" THEN NaN
    ELSE IF es = {} THEN ParseDecimal(s)
    ELSE LET x   == SetMin(es)
             man == ParseDecimal(SubSeq(s, 1, x - 1))
             ex  == ParseExponent(SubSeq(s, x + 1, Len(s)))
         IN  IF man = None \/ ex = None THEN None
             ELSE Normalize(man.m, man.e + ex.m)

\* float(s) for a str s: None stands for the ValueError.
ParseFloat(s0) ==
    LET s    == Strip(s0)
        neg  == s # "" /\ Ch(s, 1) = "-"
        body == IF s # "" /\ Ch(s, 1) \in {"+", "-"} THEN StrTail(s) ELSE s
        u    == ParseUnsigned(body)
    IN  IF u.kind = "num" THEN (IF neg THEN Num(0 - u.m, u.e) ELSE u)
        ELSE IF u.kind = "inf" THEN Inf(neg)
        ELSE u

(***************************************************************************)
(* Inputs: what tabula.read_pdf returns for a report                       *)
(***************************************************************************)
TITLE_2A == "2(A)State's Load Deails (At State Periphery) in MUs"

TITLE_2C == "2(C) State's Demand Met in MWs and day energy forecast"

TITLE_3A == "3(A) StateEntities Generation:"

\* One-cell tables: an empty cell and the three titles.
Blank == << <<NaN>> >>

Title2A == << <<S(TITLE_2A)>> >>

Title2C == << <<S(TITLE_2C)>> >>

Title3A == << <<S(TITLE_3A)>> >>

\* The two printed header lines of Table 2(A), 13 cells each.
HEADER_2A ==
    << << S("STATE"), S("THERMAL"), S("HYDRO"), S("GAS/DIESEL/"), S("WIND"),
          S("SOLAR"), S("OTHERS"), S("Net SCH"), S("Drawal"), S("UI"),
          S("Availability"), S("Demand Met"), S("Shortage #") >>,
       << NaN, NaN, NaN, S("NAPTHA"), NaN, NaN, NaN, S("(Net Mu)"),
          S("(Net Mu)"), S("(Net Mu)"), S("(Net MU)"), S("(Net MU)"),
          S("(Net MU)") >> >>

ROW_KARNATAKA ==
    << S("KARNATAKA"), S("100.5"), S("50.2"), S("0"), S("10"), S("5"), S("2"),
       S("1.1"), S("0.5"), S("0.2"), S("99.9"), S("150.3"), S("1.0") >>

ROW_KARNATAKA_REVISED ==
    << S("KARNATAKA"), S("101.5"), S("50.2"), S("0"), S("10"), S("5"), S("2"),
       S("1.1"), S("0.5"), S("0.2"), S("99.9"), S("151.3"), S("0") >>

ROW_KERALA ==
    << S("KERALA"), S("1,234.5"), S("n/a"), S("-"), S("12:30"), NaN, S(" 7 "),
       S("null"), S("na"), S("nan"), S(""), S("1e2"), S("abc") >>

ROW_AP_TRAILING ==
    << S("andhra pradesh "), S("10"), S("20"), S("0"), S("1"), S("2"), S("3"),
       S("4"), S("5"), S("6"), S("7"), S("8"), S("9") >>

ROW_AP_LOWER ==
    << S("andhra pradesh"), S("11"), S("21"), S("0"), S("1"), S("2"), S("3"),
       S("4"), S("5"), S("6"), S("7"), S("8"), S("9") >>

ROW_STRAY ==
    << S("KARNATAKA*"), S("12"), S("22"), S("0"), S("1"), S("2"), S("3"),
       S("4"), S("5"), S("6"), S("7"), S("8"), S("9") >>

ROW_XYZ ==
    << S("XYZSTATE"), S("13"), S("23"), S("0"), S("1"), S("2"), S("3"),
       S("4"), S("5"), S("6"), S("7"), S("8"), S("9") >>

ROW_NO_STATE ==
    << NaN, S("14"), S("24"), S("0"), S("1"), S("2"), S("3"), S("4"), S("5"),
       S("6"), S("7"), S("8"), S("9") >>

ROW_EMPTY_13 == [c \in 1..13 |-> NaN]

Body2A == HEADER_2A \o << ROW_KARNATAKA, ROW_EMPTY_13, ROW_KERALA >>

Body2ARevised == HEADER_2A \o << ROW_KARNATAKA_REVISED >>

Body2ACase == HEADER_2A \o << ROW_AP_TRAILING, ROW_AP_LOWER >>

Body2AStray == HEADER_2A \o << ROW_STRAY, ROW_XYZ >>

Body2ANoState == HEADER_2A \o << ROW_NO_STATE >>

\* The header lines of Table 2(C) and a row of it, 15 cells each.
HEADER_2C ==
    << << S("State"), S("Maximum Demand"), S("Time"), S("Shortage during"),
          S("Requirement at"), S("Maximum"), S("Time"), S("Shortage during"),
          S("Demand Met at"), S("Min Demand"), S("Time"), S("ACE_MAX"),
          S("Time"), S("ACE_MIN"), S("Time") >>,
       << NaN, S("Met of the day"), NaN, S("maximum demand"),
          S("maximum demand"), S("requirement of the day"), NaN,
          S("maximum requirement"), S("maximum Requirement"), S("Met"), NaN,
          NaN, NaN, NaN, NaN >> >>

ROW_KAR ==
    << S("KAR"), S("14,500"), S("19:00"), S("0"), S("14500"), S("14500"),
       S("19:00"), S("0"), S("14500"), S("9000"), S("03:00"), S("12:15"),
       S("350.5"), S("04:45"), S("-210.2") >>

ROW_TN_STRAY ==
    << S("TN "), S("17000"), S("18:30"), S("-"), S("17000"), S("17000"),
       S("18:30"), S("-"), S("17000"), S("11000"), S("04:00"), S("10:15"),
       S("400"), S("05:45"), S("-300") >>

Body2C == HEADER_2C \o << ROW_KAR, ROW_TN_STRAY >>

\* The tables a generated report is made of.
TABLE_MENU ==
    { Blank, Title2A, Title2C, Body2A, Body2ACase, Body2AStray,
      Body2ANoState, Body2C }

\* A generated report has at most this many tables.
MaxTables == 3

\* Every report of at most MaxTables tables of the menu (none included:
\* tabula found no table).
GeneratedReports == UNION {[1..n -> TABLE_MENU] : n \in 0..MaxTables}

\* The reports of the runs that share one store.
DailyReports ==
    { << Title2A, Body2A, Title2C, Body2C, Title3A >>,
      << Title2A, Body2ARevised, Title2C, Body2C, Title3A >>,
      << >> }

\* The runs sharing one store are at most this many.
MaxRuns == 2

\* Report dates are the days 1..MaxDate.
MaxDate == 2

(***************************************************************************)
(* Cell Normalizer                                                         *)
(***************************************************************************)
\* The null tokens of _safe_float.
NULL_TOKENS == {"n/a", "-", "null", "nan", "na", ""}

\* _safe_float with the colon removed like the commas instead of tested
\* for: "12:30" becomes 1230.
SafeFloat_StripColon(value) ==
    IF IsNA(value) THEN None
    ELSE IF IsStr(value)
    THEN LET v == RemoveChar(RemoveChar(Strip(value.s), ":"), ",") IN
         IF v = "" \/ Lower(v) \in NULL_TOKENS THEN None
         ELSE ParseFloat(v)
    ELSE value

\* Command._safe_float.  A cell is a str or NaN; row_data.get of a missing
\* column gives None.  float() of a float is that float.
SafeFloat(value) ==
    IF IsNA(value) THEN None
    ELSE IF IsStr(value)
    THEN LET stripped == Strip(value.s) IN
         IF HasChar(stripped, ":") THEN None
         ELSE LET v == RemoveChar(stripped, ",") IN
              IF v = "" \/ Lower(v) \in NULL_TOKENS THEN None
              ELSE ParseFloat(v)
    ELSE value

\* _safe_string with the null tokens of _safe_float.
SafeString_NullTokens(value) ==
    IF IsNA(value) THEN None
    ELSE LET s_val == Strip(IF IsStr(value) THEN value.s ELSE "") IN
         IF Lower(s_val) \in NULL_TOKENS THEN None
         ELSE S(s_val)

\* Command._safe_string
SafeString(value) ==
    IF IsNA(value) THEN None
    ELSE LET s_val == Strip(IF IsStr(value) THEN value.s ELSE "") IN
         IF Lower(s_val) = "nan" \/ s_val = "" THEN None
         ELSE S(s_val)

(***************************************************************************)
(* Frames (pandas.DataFrame): cols are the column labels (positions 0..    *)
(* when named is FALSE, names when it is TRUE), idx the row index labels,  *)
(* rows the rows, each as wide as cols.                                    *)
(*                                                                         *)
(* Bind(value, LAMBDA v : body) is body with v standing for value, the     *)
(* value being computed once: the local variables of the code.             *)
(***************************************************************************)
Bind(value, Body(_)) == CHOOSE r \in {Body(v) : v \in {value}} : TRUE

Frame(named, cols, idx, rows) ==
    [named |-> named, cols |-> cols, idx |-> idx, rows |-> rows]

Range(f) == {f[i] : i \in DOMAIN f}

\* The subsequence of s at the positions of keep (a set of positions of
\* s), in order.
Pick(s, keep) ==
    [i \in 1..Cardinality(keep) |->
        s[CHOOSE p \in keep : Cardinality({q \in keep : q < p}) = i - 1]]

\* The frame with the rows at the positions of keep.
SelectRows(f, keep) == Frame(f.named, f.cols, Pick(f.idx, keep), Pick(f.rows, keep))

\* The frame with the columns at the positions of keep.
SelectCols(f, keep) ==
    Frame(f.named, Pick(f.cols, keep), f.idx,
          [p \in 1..Len(f.rows) |-> Pick(f.rows[p], keep)])

\* .iloc[a:b] on the rows, a and b counted from 0, b exclusive
ILocRows(f, a, b) ==
    Bind({p \in 1..Len(f.rows) : a < p /\ p <= b},
         LAMBDA keep : SelectRows(f, keep))

\* .reset_index(drop=True)
ResetIndex(f) ==
    Frame(f.named, f.cols, [p \in 1..Len(f.rows) |-> p - 1], f.rows)

\* .dropna(axis=0, how='all')
DropNaRows(f) ==
    Bind({p \in 1..Len(f.rows) : \E c \in 1..Len(f.cols) : f.rows[p][c] # NaN},
         LAMBDA keep : SelectRows(f, keep))

\* .dropna(axis=1, how='all'): a column of a frame without rows is all-NaN.
DropNaCols(f) ==
    Bind({c \in 1..Len(f.cols) : \E p \in 1..Len(f.rows) : f.rows[p][c] # NaN},
         LAMBDA keep : SelectCols(f, keep))

\* sub_df_data.loc[:, ~sub_df_data.columns.duplicated()]
DropDuplicateCols(f) ==
    Bind({c \in 1..Len(f.cols) : ~\E d \in 1..(c - 1) : f.cols[d] = f.cols[c]},
         LAMBDA keep : SelectCols(f, keep))

Max2(a, b) == IF a >= b THEN a ELSE b

\* A table of tabula: a non-empty sequence of rows of one width.
TableWidth(t) == Len(t[1])

RECURSIVE MaxWidth(_)
MaxWidth(tables) ==
    IF tables = <<>> THEN 0
    ELSE Max2(TableWidth(Head(tables)), MaxWidth(Tail(tables)))

PadRow(row, w) == [c \in 1..w |-> IF c <= Len(row) THEN row[c] ELSE NaN]

RECURSIVE AllRows(_)
AllRows(tables) ==
    IF tables = <<>> THEN <<>> ELSE Head(tables) \o AllRows(Tail(tables))

\* extract_tables_from_pdf: the tables concatenated under one index; a
\* table narrower than another gets NaN in the columns it lacks.
ConcatTables(tables) ==
    Bind(MaxWidth(tables), LAMBDA w :
    Bind(AllRows(tables), LAMBDA rows :
        Frame(FALSE, [c \in 1..w |-> c - 1], [p \in 1..Len(rows) |-> p - 1],
              [p \in 1..Len(rows) |-> PadRow(rows[p], w)])))

\* all_content_df_cleaned: the concatenation without its all-NaN rows; the
\* index is not reset.
Cleaned(tables) == Bind(ConcatTables(tables), LAMBDA f : DropNaRows(f))

\* astype(str) of one cell
AsStr(cell) == IF IsStr(cell) THEN cell.s ELSE "nan"

(***************************************************************************)
(* Marker Matcher and Sub-table Extractor                                  *)
(***************************************************************************)
\* start_marker of Table 2(A); "^" stands for the right single quotation
\* mark U+2019 of the character class.
START_2A ==
    << AnyRun, Lit("2"), WS, Lit("(A)State"), OptCh({"'", "^"}), Lit("s"), WS,
       Lit("Load"), WS, Lit("Deails"), WS, Lit("(At"), WS, Lit("State"), WS,
       Lit("Periphery)"), WS, Lit("in"), WS, Lit("MUs"), AnyRun >>

\* end_marker of Table 2(A) and start_marker of Table 2(C)
START_2C ==
    << Lit("2"), WS, Lit("(C)"), WS, Lit("State's"), WS, Lit("Demand"), WS,
       Lit("Met"), WS, Lit("in"), WS, Lit("MWs"), AnyRun >>

\* end_marker of Table 2(C)
END_2C ==
    << Lit("3"), WS, Lit("(A)"), WS, Lit("StateEntities"), WS,
       Lit("Generation:") >>

MARKERS == {START_2A, START_2C, END_2C}

\* Every table of the reports, and the text of every cell of them.
ALL_TABLES == TABLE_MENU \cup UNION {Range(ts) : ts \in DailyReports}

CELL_TEXTS ==
    UNION {UNION {{AsStr(t[r][c]) : c \in 1..Len(t[r])} : r \in 1..Len(t)} :
              t \in ALL_TABLES}

\* str(cell).strip(), its whitespace collapsed, contains the marker
\* (regex=True, case=False).
TextMatches(marker, text) == Contains(marker, CollapseWS(Strip(text)))

\* Per marker, the cell texts of the reports that match it: TextMatches,
\* evaluated once for each text.
MARKER_HITS ==
    [m \in MARKERS |-> {text \in CELL_TEXTS : TextMatches(m, text)}]

CellMatches(marker, cell) ==
    LET text == AsStr(cell) IN
    IF marker \in MARKERS /\ text \in CELL_TEXTS
    THEN text \in MARKER_HITS[marker]
    ELSE TextMatches(marker, text)

\* row.astype(str).str.strip().str.replace(r'\s+', ' ') then
\* .str.contains(marker, regex=True, case=False).any()
RowMatches(marker, row) == \E c \in 1..Len(row) : CellMatches(marker, row[c])

\* The schema of Table 2(A)
COLUMNS_2A ==
    << "STATE", "THERMAL", "HYDRO", "GAS/DIESEL/NAPTHA", "WIND", "SOLAR",
       "OTHERS", "Net SCH (Net Mu)", "Drawal (Net Mu)", "UI (Net Mu)",
       "Availability (Net MU)", "Demand Met (Net MU)", "Shortage # (Net MU)" >>

\* The schema of Table 2(C)
COLUMNS_2C ==
    << "State", "Maximum Demand Met of the day", "Time",
       "Shortage during maximum demand", "Requirement at maximum demand",
       "Maximum requirement of the day", "Time.1",
       "Shortage during maximum requirement",
       "Demand Met at maximum Requirement", "Min Demand Met", "Time.2",
       "ACE_MAX", "Time.3", "Time.4", "ACE_MIN" >>

\* One name of the generic combination of two header rows; idx counts
\* from 0.
CombineHeader(top, bottom, idx) ==
    LET t_col == Strip(Strip(ReplaceChar(AsStr(top), "\n", " ")))
        b_col == Strip(Strip(ReplaceChar(AsStr(bottom), "\n", " ")))
    IN  IF t_col = "" /\ b_col = "" THEN "Unnamed_" \o ToString(idx)
        ELSE IF b_col = "" THEN t_col
        ELSE IF t_col = "" THEN b_col
        ELSE IF ~StartsWith(b_col, t_col) THEN Strip(t_col \o " " \o b_col)
        ELSE b_col

\* A list of column names, as a value that can be told from None.
Names(list) == [kind |-> "list", list |-> list]

\* new_columns of extract_subtable_by_markers: the header names, or None
\* for an unsupported header_row_count.  headers are the header rows.
ResolveHeader(headers, header_row_count, debug_table_name) ==
    IF header_row_count = 1
    THEN Names([c \in 1..Len(headers[1]) |-> Strip(AsStr(headers[1][c]))])
    ELSE IF header_row_count = 2
    THEN IF debug_table_name = "Table 2(A)" THEN Names(COLUMNS_2A)
         ELSE IF debug_table_name = "Table 2(C)" THEN Names(COLUMNS_2C)
         ELSE Names([c \in 1..Len(headers[1]) |->
                        CombineHeader(headers[1][c], headers[2][c], c - 1)])
    ELSE None

\* The reconciliation without the padding: too few names stay too few.
ReconcileSchema_NoPad(new_columns, expected_data_cols) ==
    IF Len(new_columns) > expected_data_cols
    THEN SubSeq(new_columns, 1, expected_data_cols)
    ELSE new_columns

\* The reconciliation with the synthetic names counted from 1.
ReconcileSchema_OneBased(new_columns, expected_data_cols) ==
    LET n == Len(new_columns) IN
    IF n < expected_data_cols
    THEN new_columns \o
         [i \in 1..(expected_data_cols - n) |->
             "Unnamed_Col_" \o ToString(n + i)]
    ELSE IF n > expected_data_cols
    THEN SubSeq(new_columns, 1, expected_data_cols)
    ELSE new_columns

\* The names made to match the number of columns of the data.
ReconcileSchema(new_columns, expected_data_cols) ==
    LET n == Len(new_columns) IN
    IF n < expected_data_cols
    THEN new_columns \o
         [i \in 1..(expected_data_cols - n) |->
             "Unnamed_Col_" \o ToString(n + i - 1)]
    ELSE IF n > expected_data_cols
    THEN SubSeq(new_columns, 1, expected_data_cols)
    ELSE new_columns

RECURSIVE ReplaceCR(_)
\* str.replace(r'\s*\r\s*', ' ', regex=True): a run of whitespace that
\* holds a carriage return becomes one space.
ReplaceCR(s) ==
    IF s = "" THEN ""
    ELSE IF IsSpace(Ch(s, 1))
    THEN LET n   == SpaceRun(s, 1)
             run == SubSeq(s, 1, n)
         IN  (IF HasChar(run, "\r") THEN " " ELSE run)
             \o ReplaceCR(SubSeq(s, n + 1, Len(s)))
    ELSE Ch(s, 1) \o ReplaceCR(StrTail(s))

\* columns.astype(str).str.strip(), then the carriage-return replacement
\* and another strip
NormalizeName(name) == Strip(ReplaceCR(Strip(name)))

\* The result of extract_subtable_by_markers when the marker is missing.
NotFound == [found |-> FALSE]

\* Its result otherwise: the sub-table and the names (or None).
Found(sub, headers) == [found |-> TRUE, sub |-> sub, headers |-> headers]

\* The index label of the first row that matches the start marker; -1
\* stands for None.
FindStart(df, start_marker) ==
    Bind({p \in 1..Len(df.rows) : RowMatches(start_marker, df.rows[p])},
         LAMBDA hits : IF hits = {} THEN -1 ELSE df.idx[SetMin(hits)])

\* The position (from 0) of the first row matching the end marker among
\* range(start_idx + 1, len(df)); -1 stands for None.  An empty marker
\* stands for end_marker=None.
FindEnd(df, end_marker, start_idx) ==
    IF end_marker = <<>> THEN -1
    ELSE Bind({i \in (start_idx + 1)..(Len(df.rows) - 1) :
                  RowMatches(end_marker, df.rows[i + 1])},
              LAMBDA hits : IF hits = {} THEN -1 ELSE SetMin(hits))

\* raw_sub_df: df.iloc[start_idx:end_idx] or df.iloc[start_idx:], its index
\* reset
RawSubDf(df, start_idx, end_idx) ==
    Bind(ILocRows(df, start_idx, IF end_idx # -1 THEN end_idx ELSE Len(df.rows)),
         LAMBDA f : ResetIndex(f))

\* The data rows under the names: duplicate names dropped, names
\* normalized, all-NaN rows and then all-NaN columns dropped.
AssignSchema(raw_sub_df, names, data_start) ==
    Bind(ILocRows(raw_sub_df, data_start, Len(raw_sub_df.rows)), LAMBDA data :
    Bind(DropDuplicateCols(Frame(TRUE, names, data.idx, data.rows)), LAMBDA dedup :
    Bind([c \in 1..Len(dedup.cols) |-> NormalizeName(dedup.cols[c])], LAMBDA cols :
    Bind(DropNaRows(Frame(TRUE, cols, dedup.idx, dedup.rows)), LAMBDA kept :
        DropNaCols(kept)))))

\* The rows from position a on, their all-NaN columns dropped.
RawRowsFrom(raw_sub_df, a) ==
    Bind(ILocRows(raw_sub_df, a, Len(raw_sub_df.rows)), LAMBDA f : DropNaCols(f))

\* extract_subtable_by_markers with the rows taken from offset 1 when no
\* schema is resolved, the header rows included.
ExtractSubtable_RawFromOne(df, start_marker, end_marker, header_row_count, debug_table_name) ==
    Bind(FindStart(df, start_marker), LAMBDA start_idx :
    IF start_idx = -1 THEN NotFound
    ELSE
    Bind(FindEnd(df, end_marker, start_idx), LAMBDA end_idx :
    Bind(RawSubDf(df, start_idx, end_idx), LAMBDA raw_sub_df :
    IF header_row_count > 0 /\ Len(raw_sub_df.rows) >= 1 + header_row_count
    THEN Bind(ResolveHeader(SubSeq(raw_sub_df.rows, 2, 1 + header_row_count),
                            header_row_count, debug_table_name),
              LAMBDA new_columns :
         IF new_columns # None
         THEN Bind(ReconcileSchema(new_columns.list, Len(raw_sub_df.cols)),
                   LAMBDA names :
                   Found(AssignSchema(raw_sub_df, names, 1 + header_row_count),
                         Names(names)))
         ELSE Found(RawRowsFrom(raw_sub_df, 1), None))
    ELSE Found(RawRowsFrom(raw_sub_df, 1), None))))

\* Command.extract_subtable_by_markers
ExtractSubtable(df, start_marker, end_marker, header_row_count, debug_table_name) ==
    Bind(FindStart(df, start_marker), LAMBDA start_idx :
    IF start_idx = -1 THEN NotFound
    ELSE
    Bind(FindEnd(df, end_marker, start_idx), LAMBDA end_idx :
    Bind(RawSubDf(df, start_idx, end_idx), LAMBDA raw_sub_df :
    IF header_row_count > 0 /\ Len(raw_sub_df.rows) >= 1 + header_row_count
    THEN Bind(ResolveHeader(SubSeq(raw_sub_df.rows, 2, 1 + header_row_count),
                            header_row_count, debug_table_name),
              LAMBDA new_columns :
         IF new_columns # None
         THEN Bind(ReconcileSchema(new_columns.list, Len(raw_sub_df.cols)),
                   LAMBDA names :
                   Found(AssignSchema(raw_sub_df, names, 1 + header_row_count),
                         Names(names)))
         ELSE Found(RawRowsFrom(raw_sub_df, 1 + header_row_count), None))
    ELSE Found(RawRowsFrom(raw_sub_df, 1), None))))

(***************************************************************************)
(* Row Classifier & Mapper: the per-table part of extract_tables_from_pdf  *)
(***************************************************************************)
SOUTH_INDIAN_STATES ==
    {"ANDHRA PRADESH", "KARNATAKA", "KERALA", "PONDICHERRY", "TAMILNADU",
     "TELANGANA", "REGION"}

SOUTH_INDIAN_STATES_2C == {"AP", "KAR", "KER", "PONDY", "TN", "TG", "REGION"}

\* column_mapping_2A, in the order of the dict
COLUMN_MAPPING_2A ==
    << <<"STATE", "state">>, <<"THERMAL", "thermal">>, <<"HYDRO", "hydro">>,
       <<"GAS/DIESEL/NAPTHA", "gas_naptha_diesel">>, <<"SOLAR", "solar">>,
       <<"WIND", "wind">>, <<"OTHERS", "others">>,
       <<"Net SCH (Net Mu)", "net_sch">>, <<"Drawal (Net Mu)", "drawal">>,
       <<"UI (Net Mu)", "ui">>, <<"Availability (Net MU)", "availability">>,
       <<"Demand Met (Net MU)", "demand_met">>,
       <<"Shortage # (Net MU)", "shortage">> >>

\* column_mapping_2C, in the order of the dict
COLUMN_MAPPING_2C ==
    << <<"State", "state">>,
       <<"Maximum Demand Met of the day", "max_demand_met_of_the_day">>,
       <<"Time", "time_max_demand_met">>,
       <<"Shortage during maximum demand", "shortage_during_max_demand">>,
       <<"Requirement at maximum demand", "requirement_at_max_demand">>,
       <<"Maximum requirement of the day", "max_requirement_of_the_day">>,
       <<"Time.1", "time_max_requirement">>,
       <<"Shortage during maximum requirement", "shortage_during_max_requirement">>,
       <<"Demand Met at maximum Requirement", "demand_met_at_max_requirement">>,
       <<"Min Demand Met", "min_demand_met">>,
       <<"Time.2", "time_min_demand_met">>,
       <<"ACE_MAX", "ace_max">>, <<"Time.3", "time_ace_max">>,
       <<"Time.4", "time_ace_min">>, <<"ACE_MIN", "ace_min">> >>

\* The two table identities
TABLES == {"2A", "2C"}

StartMarker(T) == IF T = "2A" THEN START_2A ELSE START_2C

EndMarker(T) == IF T = "2A" THEN START_2C ELSE END_2C

DebugName(T) == IF T = "2A" THEN "Table 2(A)" ELSE "Table 2(C)"

ColumnMapping(T) == IF T = "2A" THEN COLUMN_MAPPING_2A ELSE COLUMN_MAPPING_2C

AllowList(T) == IF T = "2A" THEN SOUTH_INDIAN_STATES ELSE SOUTH_INDIAN_STATES_2C

SectionKey(T) == IF T = "2A" THEN "table_2A" ELSE "table_2C"

HasCol(f, name) == f.named /\ \E c \in 1..Len(f.cols) : f.cols[c] = name

ColPos(f, name) == SetMin({c \in 1..Len(f.cols) : f.cols[c] = name})

\* The new name of a column under the mapping: its own when it is no key.
Renamed(mapping, col) ==
    Bind({i \in 1..Len(mapping) : mapping[i][1] = col},
         LAMBDA hit : IF hit = {} THEN col ELSE mapping[SetMin(hit)][2])

\* df.rename(columns={k: v for k, v in mapping.items() if k in df.columns})
RenameCols(f, mapping) ==
    IF ~f.named THEN f
    ELSE Frame(TRUE, [c \in 1..Len(f.cols) |-> Renamed(mapping, f.cols[c])],
               f.idx, f.rows)

\* The membership test on the trimmed, upper-cased cell with its
\* whitespace collapsed.
StateAllowed_Normalized(cell, allow) ==
    Upper(CollapseWS(Strip(AsStr(cell)))) \in allow

\* df['state'].astype(str).str.upper().isin(allow), for one cell
StateAllowed(cell, allow) == Upper(AsStr(cell)) \in allow

\* text contains part
ContainsText(text, part) ==
    \E i \in 1..(Len(text) - Len(part) + 1) :
        SubSeq(text, i, i + Len(part) - 1) = part

\* The filter with a second pass by substring containment when the exact
\* pass keeps no row.
FilterStates_Fallback(f, allow) ==
    IF HasCol(f, "state")
    THEN Bind(ColPos(f, "state"), LAMBDA c :
         Bind({p \in 1..Len(f.rows) : Upper(AsStr(f.rows[p][c])) \in allow},
              LAMBDA exact :
              IF exact # {} \/ f.rows = <<>> THEN SelectRows(f, exact)
              ELSE SelectRows(f, {p \in 1..Len(f.rows) :
                       \E a \in allow :
                          ContainsText(Upper(AsStr(f.rows[p][c])), a)})))
    ELSE f

\* df[df['state'].astype(str).str.upper().isin(allow)] when the frame has a
\* 'state' column, the frame itself otherwise
FilterStates(f, allow) ==
    IF HasCol(f, "state")
    THEN Bind(ColPos(f, "state"), LAMBDA c :
         Bind({p \in 1..Len(f.rows) : StateAllowed(f.rows[p][c], allow)},
              LAMBDA keep : SelectRows(f, keep)))
    ELSE f

\* The projection that names the columns by their position in the
\* mapping instead of selecting them by name.
ProjectFields_ByPosition(f, mapping) ==
    Bind(IF Len(f.cols) <= Len(mapping) THEN Len(f.cols) ELSE Len(mapping),
         LAMBDA w :
         Frame(TRUE, [c \in 1..w |-> mapping[c][2]], f.idx,
               [p \in 1..Len(f.rows) |-> SubSeq(f.rows[p], 1, w)]))

\* df[[col for col in model_fields if col in df.columns]]
ProjectFields(f, mapping) ==
    Bind({i \in 1..Len(mapping) : HasCol(f, mapping[i][2])}, LAMBDA present :
    Bind(Pick([i \in 1..Len(mapping) |-> mapping[i][2]], present), LAMBDA fields :
    Bind([c \in 1..Len(fields) |-> ColPos(f, fields[c])], LAMBDA pos :
        Frame(TRUE, fields, f.idx,
              [p \in 1..Len(f.rows) |->
                  [c \in 1..Len(fields) |-> f.rows[p][pos[c]]]]))))

\* df.dropna(subset=['state']) of a frame that has the column
DropNaState(f) ==
    Bind(ColPos(f, "state"), LAMBDA c :
    Bind({p \in 1..Len(f.rows) : f.rows[p][c] # NaN},
         LAMBDA keep : SelectRows(f, keep)))

\* df.to_dict(orient='records'): one mapping from column to cell per row
ToRecords(f) ==
    [p \in 1..Len(f.rows) |->
        [name \in Range(f.cols) |-> f.rows[p][ColPos(f, name)]]]

\* The outcome of the per-table block: the KeyError of
\* dropna(subset=['state']) on a frame without that column, or the records
\* of the section.
KeyError == [raised |-> TRUE]

Section(records) == [raised |-> FALSE, records |-> records]

\* From the rename to to_dict(orient='records').
ProcessTable(sub, T) ==
    Bind(RenameCols(sub, ColumnMapping(T)), LAMBDA renamed :
    Bind(FilterStates(renamed, AllowList(T)), LAMBDA filtered :
    Bind(ProjectFields(filtered, ColumnMapping(T)), LAMBDA final :
        IF ~HasCol(final, "state") THEN KeyError
        ELSE Bind(DropNaState(final), LAMBDA kept : Section(ToRecords(kept))))))

\* row_data.get(field)
Get(row_data, field) ==
    IF field \in DOMAIN row_data THEN row_data[field] ELSE None

\* The fields of the defaults of update_or_create that take _safe_string;
\* the others take _safe_float.
TEXT_FIELDS ==
    {"time_max_demand_met", "time_max_requirement", "time_min_demand_met",
     "time_ace_max", "time_ace_min"}

DefaultFields(T) ==
    IF T = "2A"
    THEN {"thermal", "hydro", "gas_naptha_diesel", "solar", "wind", "others",
          "total", "net_sch", "drawal", "ui", "availability", "demand_met",
          "shortage"}
    ELSE {"max_demand_met_of_the_day", "time_max_demand_met",
          "shortage_during_max_demand", "requirement_at_max_demand",
          "max_requirement_of_the_day", "time_max_requirement",
          "shortage_during_max_requirement", "demand_met_at_max_requirement",
          "min_demand_met", "time_min_demand_met", "ace_max", "ace_min",
          "time_ace_max", "time_ace_min"}

\* _safe_float and _safe_string of the cell texts of the reports, each
\* evaluated once.
SAFE_FLOATS == [text \in CELL_TEXTS |-> SafeFloat(S(text))]

SAFE_STRINGS == [text \in CELL_TEXTS |-> SafeString(S(text))]

\* self._safe_float(value)
CallSafeFloat(value) ==
    IF IsStr(value) /\ value.s \in CELL_TEXTS THEN SAFE_FLOATS[value.s]
    ELSE SafeFloat(value)

\* self._safe_string(value)
CallSafeString(value) ==
    IF IsStr(value) /\ value.s \in CELL_TEXTS THEN SAFE_STRINGS[value.s]
    ELSE SafeString(value)

\* The defaults passed to update_or_create for one row.
Defaults(T, row_data) ==
    [f \in DefaultFields(T) |->
        IF f \in TEXT_FIELDS THEN CallSafeString(Get(row_data, f))
        ELSE CallSafeFloat(Get(row_data, f))]

(***************************************************************************)
(* RecordStore: the rows of Table2AData and Table2CData                    *)
(***************************************************************************)
Matching(rows, T, date, state) ==
    {r \in rows : r.table = T /\ r.report_date = date /\ r.state = state}

\* objects.create in the place of update_or_create: a row is added
\* whatever the store holds.
UpdateOrCreate_AlwaysCreates(rows, T, date, state, defaults, id) ==
    [rows |-> rows \cup {[id |-> id, table |-> T, report_date |-> date,
                           state |-> state, fields |-> defaults]},
     did |-> "created"]

\* objects.update_or_create(report_date=, state=, defaults=): the rows after
\* the call and what it did.  More than one matching row raises
\* MultipleObjectsReturned.
UpdateOrCreate(rows, T, date, state, defaults, id) ==
    LET hit == Matching(rows, T, date, state) IN
    IF hit = {}
    THEN [rows |-> rows \cup {[id |-> id, table |-> T, report_date |-> date,
                               state |-> state, fields |-> defaults]},
          did |-> "created"]
    ELSE IF Cardinality(hit) = 1
    THEN [rows |-> {IF r \in hit THEN [r EXCEPT !.fields = defaults] ELSE r :
                       r \in rows},
          did |-> "updated"]
    ELSE [rows |-> rows, did |-> "error"]

(***************************************************************************)
(* State                                                                   *)
(***************************************************************************)
VARIABLES
    pc,                 \* where the command is: idle, read, extract_2A, ...
    universe,           \* which reports the runs read: "daily" or "generated"
    runs,               \* number of runs started
    tables,             \* what tabula.read_pdf returns for the pdf
    report_date,        \* the report date of the run
    found,              \* per table: pending, notfound or found
    combined_json_data, \* the export structure: section key -> records
    todo,               \* the rows of the current table still to save
    calls,              \* the update_or_create calls of the run, in order
    store,              \* the rows of Table2AData and Table2CData
    nextId,             \* the primary key of the next row created
    exportFile,         \* per date, srldc_report_tables.json
    err,                \* the exception that ended the run, "" for none
    last,               \* the previous run: its report, date and outcome
    storeAtStart,       \* the store when the run began
    step,               \* the function applied to input, and whether it was
    input,              \* an argument of a pure function
    output              \* its result

vars ==
    << pc, universe, runs, tables, report_date, found, combined_json_data,
       todo, calls, store, nextId, exportFile, err, last, storeAtStart, step,
       input, output >>

procVars ==
    << pc, runs, tables, report_date, found, combined_json_data, todo, calls,
       store, nextId, exportFile, err, last, storeAtStart >>

pureVars == << step, input, output >>

Dates == 1..MaxDate

EmptyDict == [k \in {} |-> <<>>]

\* d[key] = value
DictSet(d, key, value) ==
    [k \in DOMAIN d \cup {key} |-> IF k = key THEN value ELSE d[k]]

NoFile == [written |-> FALSE, data |-> EmptyDict]

NoRun == [tables |-> <<>>, report_date |-> 0, clean |-> FALSE]

InitProc ==
    /\ pc = "idle"
    /\ runs = 0
    /\ tables = <<>>
    /\ report_date = 0
    /\ found = [T \in TABLES |-> "pending"]
    /\ combined_json_data = EmptyDict
    /\ todo = <<>>
    /\ calls = <<>>
    /\ store = {}
    /\ nextId = 1
    /\ exportFile = [d \in Dates |-> NoFile]
    /\ err = ""
    /\ last = NoRun
    /\ storeAtStart = {}

InitPure ==
    /\ step = "none"
    /\ input = None
    /\ output = None

Init ==
    /\ universe = "daily"
    /\ InitProc
    /\ InitPure

InitGenerated ==
    /\ universe = "generated"
    /\ InitProc
    /\ InitPure

(***************************************************************************)
(* Command.handle, from the pdf being at hand on                           *)
(***************************************************************************)
\* handle calls extract_tables_from_pdf(pdf_path, report_output_dir,
\* report_date).
BeginRun ==
    /\ pc = "idle"
    /\ runs < (IF universe = "daily" THEN MaxRuns ELSE 1)
    /\ \E ts \in (IF universe = "daily" THEN DailyReports ELSE GeneratedReports),
          d \in (IF universe = "daily" THEN Dates ELSE {1}) :
          /\ tables' = ts
          /\ report_date' = d
    /\ pc' = "read"
    /\ runs' = runs + 1
    /\ found' = [T \in TABLES |-> "pending"]
    /\ combined_json_data' = EmptyDict
    /\ todo' = <<>>
    /\ calls' = <<>>
    /\ err' = ""
    /\ storeAtStart' = store
    /\ UNCHANGED << universe, store, nextId, exportFile, last, pureVars >>

\* tabula.read_pdf without the test of l.220: an empty list of tables goes
\* on to the extraction.
ReadPdf_EmptyGoesOn ==
    /\ pc = "read"
    /\ \E raises \in BOOLEAN :
          IF raises
          THEN pc' = "aborted" /\ err' = "CommandError: Tabula extraction failed"
          ELSE pc' = "extract_2A" /\ err' = err
    /\ UNCHANGED << universe, runs, tables, report_date, found,
                    combined_json_data, todo, calls, store, nextId, exportFile,
                    last, storeAtStart, pureVars >>

\* tabula.read_pdf: it raises, or returns no table, or returns tables.
ReadPdf ==
    /\ pc = "read"
    /\ \E raises \in BOOLEAN :
          IF raises
          THEN pc' = "aborted" /\ err' = "CommandError: Tabula extraction failed"
          ELSE IF tables = <<>>
          THEN pc' = "aborted" /\ err' = "CommandError: No tables found"
          ELSE pc' = "extract_2A" /\ err' = err
    /\ UNCHANGED << universe, runs, tables, report_date, found,
                    combined_json_data, todo, calls, store, nextId, exportFile,
                    last, storeAtStart, pureVars >>

AfterTable(T) == IF T = "2A" THEN "extract_2C" ELSE "export"

\* The block of one table up to combined_json_data[...] = records: the
\* table is not found, or the block raises, or it gives the records.
TableOutcome(df, T) ==
    Bind(ExtractSubtable(df, StartMarker(T), EndMarker(T), 2, DebugName(T)),
         LAMBDA r :
         IF ~r.found THEN [found |-> FALSE, raised |-> FALSE, records |-> <<>>]
         ELSE Bind(ProcessTable(r.sub, T), LAMBDA p :
              IF p.raised
              THEN [found |-> TRUE, raised |-> TRUE, records |-> <<>>]
              ELSE [found |-> TRUE, raised |-> FALSE, records |-> p.records]))

ExtractTable(T) ==
    /\ pc = "extract_" \o T
    /\ \E df \in {Cleaned(tables)} : \E o \in {TableOutcome(df, T)} :
          IF ~o.found
          THEN /\ found' = [found EXCEPT ![T] = "notfound"]
               /\ pc' = AfterTable(T)
               /\ UNCHANGED << combined_json_data, todo, err >>
          ELSE /\ found' = [found EXCEPT ![T] = "found"]
               /\ IF o.raised
                  THEN /\ pc' = "raised"
                       /\ err' = "KeyError: ['state']"
                       /\ UNCHANGED << combined_json_data, todo >>
                  ELSE /\ pc' = "upsert_" \o T
                       /\ combined_json_data' =
                             DictSet(combined_json_data, SectionKey(T), o.records)
                       /\ todo' = o.records
                       /\ err' = err
    /\ UNCHANGED << universe, runs, tables, report_date, calls, store, nextId,
                    exportFile, last, storeAtStart, pureVars >>

\* The arguments of update_or_create for one row.
UpsertArgs(T, row_data) ==
    [state |-> CallSafeString(Get(row_data, "state")),
     defaults |-> Defaults(T, row_data)]

\* One turn of the loop over the rows: update_or_create, which the store
\* may reject; the exception is caught and the loop goes on.
UpsertRow(T) ==
    /\ pc = "upsert_" \o T
    /\ todo # <<>>
    /\ \E a \in {UpsertArgs(T, Head(todo))}, rejected \in BOOLEAN :
          \E u \in {IF rejected THEN [rows |-> store, did |-> "error"]
                    ELSE UpdateOrCreate(store, T, report_date, a.state,
                                        a.defaults, nextId)} :
             /\ store' = u.rows
             /\ nextId' = IF u.did = "created" THEN nextId + 1 ELSE nextId
             /\ calls' = Append(calls, [table |-> T, state |-> a.state,
                                        defaults |-> a.defaults,
                                        did |-> u.did])
    /\ todo' = Tail(todo)
    /\ UNCHANGED << pc, universe, runs, tables, report_date, found,
                    combined_json_data, exportFile, err, last, storeAtStart,
                    pureVars >>

\* The loop over the rows ends.
EndUpserts(T) ==
    /\ pc = "upsert_" \o T
    /\ todo = <<>>
    /\ pc' = AfterTable(T)
    /\ UNCHANGED << universe, runs, tables, report_date, found,
                    combined_json_data, todo, calls, store, nextId, exportFile,
                    err, last, storeAtStart, pureVars >>

\* json.dump of combined_json_data when it has a section.
WriteExport ==
    /\ pc = "export"
    /\ exportFile' =
          IF combined_json_data # EmptyDict
          THEN [exportFile EXCEPT ![report_date] =
                   [written |-> TRUE, data |-> combined_json_data]]
          ELSE exportFile
    /\ pc' = "done"
    /\ UNCHANGED << universe, runs, tables, report_date, found,
                    combined_json_data, todo, calls, store, nextId, err, last,
                    storeAtStart, pureVars >>

\* The command returns or dies of its exception.
Finish ==
    /\ pc \in {"done", "aborted", "raised"}
    /\ pc' = "idle"
    /\ last' = [tables |-> tables, report_date |-> report_date,
                clean |-> pc \in {"done", "raised"}
                          /\ \A i \in 1..Len(calls) : calls[i].did # "error"]
    /\ UNCHANGED << universe, runs, tables, report_date, found,
                    combined_json_data, todo, calls, store, nextId, exportFile,
                    err, storeAtStart, pureVars >>

Next ==
    \/ BeginRun
    \/ ReadPdf
    \/ \E T \in TABLES : ExtractTable(T)
    \/ \E T \in TABLES : UpsertRow(T)
    \/ \E T \in TABLES : EndUpserts(T)
    \/ WriteExport
    \/ Finish

\* Runs on the daily reports, sharing one store.
Spec == Init /\ [][Next]_vars

\* One run on each generated report.
SpecGenerated == InitGenerated /\ [][Next]_vars

(***************************************************************************)
(* The Cell Normalizer alone: _safe_float and _safe_string applied to one  *)
(* cell                                                                    *)
(***************************************************************************)
\* The generated cell texts have at most this many characters.
MaxLen == 3

ALPHABET == {"1", ":", ",", ".", "-", " ", "n", "a", "N", "/"}

RECURSIVE Join(_)
Join(chars) == IF chars = <<>> THEN "" ELSE Head(chars) \o Join(Tail(chars))

\* Every text over the alphabet of at most MaxLen characters.
GENERATED_TEXTS == UNION {{Join(f) : f \in [1..n -> ALPHABET]} : n \in 0..MaxLen}

\* Longer texts of the reports.
REPORT_TEXTS ==
    {"null", "NULL", " Null ", " N/A ", "NaN ", "12:30", "1,2:30", " 19:00 ",
     "1,234.5", "14,500", "-210.2", "1e2", "abc", "-nan", "inf", "1_0"}

\* A cell of the grid is a text or NaN; row_data.get of a column that is
\* not there is None.
CELLS == {S(t) : t \in GENERATED_TEXTS \cup REPORT_TEXTS} \cup {NaN, None}

InitCell ==
    /\ universe = "cell"
    /\ InitProc
    /\ step = "none"
    /\ input \in CELLS
    /\ output = None

ApplySafeFloat ==
    /\ universe = "cell"
    /\ step = "none"
    /\ step' = "safe_float"
    /\ output' = SafeFloat(input)
    /\ UNCHANGED << universe, procVars, input >>

ApplySafeString ==
    /\ universe = "cell"
    /\ step = "none"
    /\ step' = "safe_string"
    /\ output' = SafeString(input)
    /\ UNCHANGED << universe, procVars, input >>

NextCell ==
    \/ ApplySafeFloat
    \/ ApplySafeString

SpecCell == InitCell /\ [][NextCell]_vars

(***************************************************************************)
(* The Header Resolver and the reconciliation alone: the names given to a  *)
(* raw sub-table of k columns                                              *)
(***************************************************************************)
\* The raw sub-tables have at most this many columns.
MaxCols == 16

HEADER_KINDS == {"both", "top", "none"}

\* The two rows under the title, k cells each.
HeaderRows(kind, k) ==
    << [c \in 1..k |-> IF kind = "none" THEN NaN ELSE S("Col" \o ToString(c))],
       [c \in 1..k |-> IF kind = "both" THEN S("Sub" \o ToString(c)) ELSE NaN] >>

SCHEMA_INPUTS ==
    { [headers |-> SubSeq(HeaderRows(kind, k), 1, IF n <= 2 THEN n ELSE 2),
       header_row_count |-> n, debug_table_name |-> name, k |-> k] :
         kind \in HEADER_KINDS, k \in 1..MaxCols, n \in 1..3,
         name \in {"Table 2(A)", "Table 2(C)", "Unknown Table"} }

InitSchema ==
    /\ universe = "schema"
    /\ InitProc
    /\ step = "none"
    /\ input \in SCHEMA_INPUTS
    /\ output = << None, None >>

\* new_columns as the header rows and the table identity give them
ResolveSchema ==
    /\ universe = "schema"
    /\ step = "none"
    /\ step' = "resolved"
    /\ output' = << ResolveHeader(input.headers, input.header_row_count,
                                  input.debug_table_name), None >>
    /\ UNCHANGED << universe, procVars, input >>

\* new_columns matched to the k columns of the raw sub-table
Reconcile ==
    /\ universe = "schema"
    /\ step = "resolved"
    /\ output[1] # None
    /\ step' = "reconciled"
    /\ output' = << output[1], Names(ReconcileSchema(output[1].list, input.k)) >>
    /\ UNCHANGED << universe, procVars, input >>

NextSchema ==
    \/ ResolveSchema
    \/ Reconcile

SpecSchema == InitSchema /\ [][NextSchema]_vars

(***************************************************************************)
(* Vocabulary of the properties                                            *)
(***************************************************************************)
\* The grid the extractor searches in the current run.
Grid == Cleaned(tables)

\* No row of the grid g matches the start pattern of T.
NoStartRow(g, T) ==
    \A p \in 1..Len(g.rows) : ~RowMatches(StartMarker(T), g.rows[p])

Other(T) == IF T = "2A" THEN "2C" ELSE "2A"

\* The update_or_create calls of the run for T.
CallsOf(T) == SelectSeq(calls, LAMBDA c : c.table = T)

HasSection(T) == SectionKey(T) \in DOMAIN combined_json_data

SectionOf(T) == combined_json_data[SectionKey(T)]

\* The run is past the block of T.
PastBlock(T) ==
    IF T = "2A" THEN pc \in {"extract_2C", "upsert_2C", "export", "done"}
    ELSE pc \in {"export", "done"}

\* The run is past both blocks, or ended in one.
BlocksOver == pc \in {"export", "raised"}

\* The name of the region-identifier column of T before the rename.
StateColumn(T) == IF T = "2A" THEN "STATE" ELSE "State"

\* The region-identifier cells of the rows of the sub-table that
\* extract_subtable_by_markers gives for T on the grid, in order.
StateCells(T) ==
    Bind(Grid, LAMBDA g :
    Bind(ExtractSubtable(g, StartMarker(T), EndMarker(T), 2, DebugName(T)).sub,
         LAMBDA sub :
    Bind(ColPos(sub, StateColumn(T)), LAMBDA c :
        [p \in 1..Len(sub.rows) |-> sub.rows[p][c]])))

\* Those of the cells whose upper-cased text is in the allow-list.
UppercaseMatches(cells, T) ==
    SelectSeq(cells, LAMBDA cell : Upper(AsStr(cell)) \in AllowList(T))

\* The region identifiers of the records of the section.
SectionStates(T) ==
    Bind(SectionOf(T), LAMBDA recs : [i \in 1..Len(recs) |-> recs[i].state])

(***************************************************************************)
(* C1                                                                      *)
(***************************************************************************)
\* C1 as stated: on a grid in which no row matches the start pattern of a
\* table, the run is not ended by an exception; once the block of the table
\* is over the table is not found, the export structure has no section for
\* it and no update_or_create was made for it; and the other table, when
\* the grid has its title, is in the exported file at the end of the run,
\* with one update_or_create per record.
C1_AsStated ==
    (tables # <<>> /\ pc \notin {"idle", "read", "aborted"}) =>
        \E g \in {Grid} : \A T \in TABLES :
            NoStartRow(g, T) =>
                /\ pc # "raised"
                /\ found[T] # "pending" =>
                      /\ found[T] = "notfound"
                      /\ ~HasSection(T)
                      /\ CallsOf(T) = <<>>
                /\ (pc = "done" /\ ~NoStartRow(g, Other(T))) =>
                      /\ exportFile[report_date].written
                      /\ SectionKey(Other(T)) \in
                            DOMAIN exportFile[report_date].data
                      /\ Len(CallsOf(Other(T))) = Len(SectionOf(Other(T)))

\* What holds of the table that is not found, whatever becomes of the
\* other: it is reported not found, gets no section and no
\* update_or_create, and the exception that ends a run is never of its
\* block.
NotFoundIsSkipped ==
    (tables # <<>> /\ found["2A"] # "pending") =>
        \E g \in {Grid} : \A T \in TABLES :
            (found[T] # "pending" /\ NoStartRow(g, T)) =>
                /\ found[T] = "notfound"
                /\ ~HasSection(T)
                /\ CallsOf(T) = <<>>
                /\ pc = "raised" => (T = "2A" /\ found["2C"] = "found")

(***************************************************************************)
(* C2                                                                      *)
(***************************************************************************)
\* The run repeats the previous one, report and date, and no call of the
\* previous one was rejected by the store.
IsRepeat ==
    /\ pc # "idle"
    /\ runs >= 2
    /\ last.clean
    /\ last.tables = tables
    /\ last.report_date = report_date

\* The last call of the run for the key of call i that the store took.
LastTaken(i) ==
    SetMax({j \in 1..Len(calls) :
               /\ calls[j].table = calls[i].table
               /\ calls[j].state = calls[i].state
               /\ calls[j].did # "error"})

\* C2: after any runs in sequence the store holds at most one record per
\* (table, report date, region); a record holds what the last accepted
\* update_or_create for its key gave; a run that repeats the previous one
\* adds no record: each of its calls updates the record that is there.
C2_OneRecordPerKey ==
    /\ \A r, q \in store :
          (r.table = q.table /\ r.report_date = q.report_date
              /\ r.state = q.state) => r = q
    /\ \A i \in 1..Len(calls) :
          calls[i].did # "error" =>
             \E r \in store :
                /\ r.table = calls[i].table
                /\ r.report_date = report_date
                /\ r.state = calls[i].state
                /\ r.fields = calls[LastTaken(i)].defaults
    /\ IsRepeat =>
          /\ {r.id : r \in store} = {r.id : r \in storeAtStart}
          /\ \A i \in 1..Len(calls) : calls[i].did \in {"updated", "error"}

\* A finished repeat of a run, with updates and no record more than before.
C2_Witness ==
    /\ IsRepeat
    /\ pc = "done"
    /\ store # {}
    /\ Cardinality(store) = Cardinality(storeAtStart)
    /\ \E i \in 1..Len(calls) : calls[i].table = "2A" /\ calls[i].did = "updated"
    /\ \E i \in 1..Len(calls) : calls[i].table = "2C" /\ calls[i].did = "updated"

(***************************************************************************)
(* C3                                                                      *)
(***************************************************************************)
\* The grid g is a title row of Table 2(A), two header rows and data rows,
\* 13 cells wide, with no title of Table 2(C).
Shape2A(g) ==
    /\ Len(g.cols) = 13
    /\ Len(g.rows) >= 3
    /\ g.idx[1] = 0
    /\ RowMatches(START_2A, g.rows[1])
    /\ \A p \in 2..Len(g.rows) : ~RowMatches(START_2C, g.rows[p])

\* The data rows of g whose first cell is an allow-listed region.
RegionRows2A(g) ==
    {p \in 4..Len(g.rows) :
        IsStr(g.rows[p][1]) /\ g.rows[p][1].s \in SOUTH_INDIAN_STATES}

\* The field of the records that the column at position c goes to.
FieldOfColumn2A(c) == Renamed(COLUMN_MAPPING_2A, COLUMNS_2A[c])

\* The record holds the cells of the row, each under the field of its
\* column; a column empty in every row gives no field.
RecordOfRow(rec, row) ==
    /\ DOMAIN rec \subseteq {FieldOfColumn2A(c) : c \in 1..13}
    /\ \A c \in 1..13 :
          IF FieldOfColumn2A(c) \in DOMAIN rec
          THEN rec[FieldOfColumn2A(c)] = row[c]
          ELSE row[c] = NaN

\* The call passes the region and the numbers of the row, each under the
\* field of its column.
CallOfRow(call, row) ==
    /\ call.state = S(Strip(row[1].s))
    /\ \A c \in 2..13 :
          call.defaults[FieldOfColumn2A(c)] = CallSafeFloat(row[c])
    /\ call.defaults["total"] = None

IsRegion2A(state) == IsStr(state) /\ state.s \in SOUTH_INDIAN_STATES

\* C3: on a grid of a Table 2(A) title row, two header rows and data rows
\* of 13 cells, the data rows whose first cell is an allow-listed region
\* give, in order and one each, the records of the section with such a
\* region and the update_or_create calls with such a region; record and
\* call take each field from the cell at the position of its column.
C3_RowsBecomeRecords ==
    (tables # <<>> /\ found["2A"] # "pending") =>
        \E g \in {Grid} :
            (Shape2A(g) /\ RegionRows2A(g) # {}) =>
                /\ pc # "raised"
                /\ found["2A"] = "found"
                /\ HasSection("2A")
                /\ \E rows \in {Pick(g.rows, RegionRows2A(g))},
                      recs \in {SelectSeq(SectionOf("2A"),
                                   LAMBDA r : IsRegion2A(r.state))},
                      done \in {SelectSeq(CallsOf("2A"),
                                   LAMBDA c : IsRegion2A(c.state))} :
                      /\ Len(recs) = Len(rows)
                      /\ \A i \in 1..Len(rows) : RecordOfRow(recs[i], rows[i])
                      /\ PastBlock("2A") =>
                            /\ Len(done) = Len(rows)
                            /\ \A i \in 1..Len(rows) :
                                  CallOfRow(done[i], rows[i])

\* The row of KARNATAKA exported and saved with thermal=100.5, hydro=50.2,
\* wind=10, solar=5, demand_met=150.3 and shortage=1.0.
C3_Witness ==
    /\ pc = "done"
    /\ HasSection("2A")
    /\ Shape2A(Grid)
    /\ \E i \in 1..Len(SectionOf("2A")) :
          /\ SectionOf("2A")[i].state = S("KARNATAKA")
          /\ SectionOf("2A")[i].thermal = S("100.5")
          /\ SectionOf("2A")[i].demand_met = S("150.3")
    /\ \E r \in store :
          /\ r.table = "2A"
          /\ r.state = S("KARNATAKA")
          /\ r.fields.thermal = Num(1005, -1)
          /\ r.fields.hydro = Num(502, -1)
          /\ r.fields.wind = Num(1, 1)
          /\ r.fields.solar = Num(5, 0)
          /\ r.fields.demand_met = Num(1503, -1)
          /\ r.fields.shortage = Num(1, 0)

(***************************************************************************)
(* C4                                                                      *)
(***************************************************************************)
\* The region identifier as the specification normalizes it: trimmed,
\* upper-cased, its whitespace collapsed.
NormalizedRegion(cell) == Upper(CollapseWS(Strip(AsStr(cell))))

\* C4 as amended: the filter upper-cases the region-identifier cell and
\* does nothing else to it before the membership test.  The records of a
\* section are the rows of the sub-table whose upper-cased identifier is in
\* the allow-list, so "andhra pradesh" is retained and "andhra pradesh "
\* with its trailing space is dropped.
C4_FilterOnlyUppercases ==
    \A T \in TABLES :
        (BlocksOver /\ HasSection(T)) =>
            \E cells \in {StateCells(T)}, states \in {SectionStates(T)} :
                /\ states = UppercaseMatches(cells, T)
                /\ \A i \in 1..Len(states) :
                      Upper(AsStr(states[i])) \in AllowList(T)

\* The section of a report with both spellings holds "andhra pradesh" and
\* not "andhra pradesh ".
C4_Witness ==
    /\ pc = "export"
    /\ HasSection("2A")
    /\ \E cells \in {StateCells("2A")}, states \in {SectionStates("2A")} :
          /\ \E i \in 1..Len(cells) : cells[i] = S("andhra pradesh ")
          /\ \E i \in 1..Len(states) : states[i] = S("andhra pradesh")
          /\ \A i \in 1..Len(states) : states[i] # S("andhra pradesh ")

\* C4 as stated: a row is retained when its identifier, trimmed,
\* upper-cased and with its whitespace collapsed, is in the allow-list.
C4_AsStated ==
    \A T \in TABLES :
        (BlocksOver /\ HasSection(T)) =>
            \E cells \in {StateCells(T)}, states \in {SectionStates(T)} :
                \A i \in 1..Len(cells) :
                    NormalizedRegion(cells[i]) \in AllowList(T) =>
                        \E j \in 1..Len(states) : states[j] = cells[i]

(***************************************************************************)
(* C5                                                                      *)
(***************************************************************************)
\* The identifier holds an allow-listed identifier and more.
HasStrayCharacters(cell, T) ==
    /\ Upper(AsStr(cell)) \notin AllowList(T)
    /\ \E a \in AllowList(T) : ContainsText(Upper(AsStr(cell)), a)

\* C5 as amended: there is no second pass.  When no row of the sub-table
\* has an upper-cased identifier in the allow-list, the section is exported
\* without a record and no update_or_create is made for the table.
C5_NoSecondPass ==
    \A T \in TABLES :
        (BlocksOver /\ HasSection(T)) =>
            \E cells \in {StateCells(T)} :
                UppercaseMatches(cells, T) = <<>> =>
                    /\ SectionOf(T) = <<>>
                    /\ CallsOf(T) = <<>>

\* A run past both blocks whose sub-table has a row with stray characters
\* after the identifier, and whose section is empty.
C5_Witness ==
    /\ pc = "export"
    /\ HasSection("2A")
    /\ SectionOf("2A") = <<>>
    /\ CallsOf("2A") = <<>>
    /\ \E cells \in {StateCells("2A")} :
          \E i \in 1..Len(cells) : HasStrayCharacters(cells[i], "2A")

\* C5 as stated: when the exact pass keeps no row, a row whose identifier
\* holds an allow-listed identifier plus stray characters is retained.
C5_AsStated ==
    \A T \in TABLES :
        (BlocksOver /\ HasSection(T)) =>
            \E cells \in {StateCells(T)}, states \in {SectionStates(T)} :
                UppercaseMatches(cells, T) = <<>> =>
                    \A i \in 1..Len(cells) :
                        HasStrayCharacters(cells[i], T) =>
                            \E j \in 1..Len(states) : states[j] = cells[i]

(***************************************************************************)
(* C6                                                                      *)
(***************************************************************************)
\* The cell is, trimmed and whatever its case, one of the six tokens.
IsNullToken(cell) ==
    IsStr(cell) /\ Lower(Strip(cell.s)) \in {"n/a", "-", "null", "nan", "na", ""}

\* C6 as amended: for a cell that is one of the six tokens, _safe_float
\* returns None; _safe_string returns None for "nan" and the empty text
\* only, and the trimmed text for "n/a", "-", "null" and "na".
C6_NullTokens ==
    IsNullToken(input) =>
        /\ step = "safe_float" => output = None
        /\ step = "safe_string" =>
              output = IF Lower(Strip(input.s)) \in {"nan", ""} THEN None
                       ELSE S(Strip(input.s))

\* _safe_string applied to " N/A ": the text "N/A".
C6_Witness ==
    /\ step = "safe_string"
    /\ input = S(" N/A ")
    /\ IsNullToken(input)
    /\ output = S("N/A")

\* C6 as stated: both functions return None for the six tokens.
C6_AsStated ==
    (IsNullToken(input) /\ step \in {"safe_float", "safe_string"}) =>
        output = None

(***************************************************************************)
(* C7                                                                      *)
(***************************************************************************)
\* C7: _safe_float returns None for every text with a colon in it.
C7_ColonIsAbsent ==
    (step = "safe_float" /\ IsStr(input) /\ HasChar(input.s, ":")) =>
        output = None

\* _safe_float applied to "12:30".
C7_Witness ==
    /\ step = "safe_float"
    /\ input = S("12:30")
    /\ output = None

(***************************************************************************)
(* C8                                                                      *)
(***************************************************************************)
\* C8 as amended: 13 resolved names on a raw sub-table of 15 columns are
\* padded with Unnamed_Col_13 and Unnamed_Col_14 to 15 names, and on one of
\* 11 columns are cut to the first 11.
C8_PadsTo15CutsTo11 ==
    (step = "reconciled" /\ Len(output[1].list) = 13) =>
        /\ input.k = 15 =>
              output[2].list = output[1].list \o << "Unnamed_Col_13", "Unnamed_Col_14" >>
        /\ input.k = 11 => output[2].list = SubSeq(output[1].list, 1, 11)

\* The schema of Table 2(A) on 15 columns.
C8_Witness ==
    /\ step = "reconciled"
    /\ output[1].list = COLUMNS_2A
    /\ input.k = 15
    /\ Len(output[2].list) = 15
    /\ output[2].list[14] = "Unnamed_Col_13"

\* C8 as stated: 13 names on 15 columns are cut to 13, and on 11 columns
\* padded with two synthetic names.
C8_AsStated ==
    (step = "reconciled" /\ Len(output[1].list) = 13) =>
        /\ input.k = 15 => Len(output[2].list) = 13
        /\ input.k = 11 =>
              /\ Len(output[2].list) = 13
              /\ \A i \in 12..13 : StartsWith(output[2].list[i], "Unnamed_Col_")

(***************************************************************************)
(* C9                                                                      *)
(***************************************************************************)
\* C9: n resolved names on a raw sub-table of k columns give k names: the
\* first min(n, k) are the resolved ones in order, and those at the
\* positions n..k-1 (from 0) are Unnamed_Col_ and the position.
C9_ReconciledToWidth ==
    step = "reconciled" =>
        LET n == Len(output[1].list)
            k == input.k
        IN  /\ Len(output[2].list) = k
            /\ \A i \in 1..(IF n <= k THEN n ELSE k) : output[2].list[i] = output[1].list[i]
            /\ \A i \in (n + 1)..k :
                  output[2].list[i] = "Unnamed_Col_" \o ToString(i - 1)

\* The schema of Table 2(C), 15 names, on the widest raw sub-table.
C9_Witness ==
    /\ step = "reconciled"
    /\ output[1].list = COLUMNS_2C
    /\ input.k > 15
    /\ output[2].list[16] = "Unnamed_Col_15"

(***************************************************************************)
(* C10                                                                     *)
(***************************************************************************)
\* C10 as stated: once tabula.read_pdf has returned a table, the run is not
\* ended by an exception.
C10_NeverRaises == pc # "raised"

(***************************************************************************)
(* C11                                                                     *)
(***************************************************************************)
\* Some update_or_create of the run was rejected by the store.
SomeRejected == \E i \in 1..Len(calls) : calls[i].did = "error"

\* C11 as stated: when the store rejects the update_or_create of a row, the
\* run is not ended by an exception, every row of the table gets its
\* update_or_create in order, the second table is processed and the export
\* file is written with the sections of the run.
C11_AsStated ==
    SomeRejected =>
        /\ pc # "raised"
        /\ \A T \in TABLES :
              PastBlock(T) =>
                 /\ found[T] # "pending"
                 /\ HasSection(T) => Len(CallsOf(T)) = Len(SectionOf(T))
        /\ pc = "done" =>
              /\ exportFile[report_date].written
              /\ exportFile[report_date].data = combined_json_data

\* What holds of the loop over the rows, whatever becomes of the other
\* table: a rejected update_or_create leaves the loop running, and at its
\* end every row of the section has had its call with its region, in order.
RejectedRowIsAbsorbed ==
    \A T \in TABLES :
        /\ pc = "upsert_" \o T =>
              Len(CallsOf(T)) + Len(todo) = Len(SectionOf(T))
        /\ (HasSection(T) /\ (PastBlock(T) \/ pc = "upsert_" \o T)) =>
              \E done \in {CallsOf(T)}, recs \in {SectionOf(T)} :
                 \A i \in 1..Len(done) :
                    done[i].state = CallSafeString(Get(recs[i], "state"))

(***************************************************************************)
(* C12                                                                     *)
(***************************************************************************)
\* C12: when tabula.read_pdf raises or returns no table the run aborts with
\* a CommandError before any sub-table is searched: from the start of the
\* run to its end no table is found or looked for, no update_or_create is
\* made, the store and the export files stay as they were.
C12_AbortsBeforeExtraction ==
    [][ /\ (pc = "read" /\ tables = <<>>) => pc' = "aborted"
        /\ pc' = "read" => (store' = store /\ exportFile' = exportFile)
        /\ pc' = "aborted" =>
              /\ pc = "read"
              /\ err' \in {"CommandError: Tabula extraction failed",
                           "CommandError: No tables found"}
              /\ found' = [T \in TABLES |-> "pending"]
              /\ combined_json_data' = EmptyDict
              /\ calls' = <<>>
              /\ store' = store /\ store' = storeAtStart'
              /\ exportFile' = exportFile
        /\ pc = "aborted" =>
              /\ pc' = "idle"
              /\ calls' = <<>>
              /\ store' = store
              /\ exportFile' = exportFile ]_vars

\* A second run, on a pdf in which tabula finds no table, aborted with the
\* store of the first run untouched.
C12_Witness ==
    /\ pc = "aborted"
    /\ runs = 2
    /\ tables = <<>>
    /\ err = "CommandError: No tables found"
    /\ calls = <<>>
    /\ store # {}
    /\ store = storeAtStart
    /\ \E d \in Dates : exportFile[d].written

(***************************************************************************)
(* C13                                                                     *)
(***************************************************************************)
\* The run has read its tables and built the grid.
GridBuilt == tables # <<>> /\ pc \notin {"idle", "read", "aborted"}

\* The position (from 1) in the grid g of the first row that matches the
\* start pattern of T.
FirstStartRow(g, T) ==
    SetMin({p \in 1..Len(g.rows) : RowMatches(StartMarker(T), g.rows[p])})

\* raw_sub_df of extract_subtable_by_markers for T on the grid g.
Region(g, T) ==
    Bind(FindStart(g, StartMarker(T)), LAMBDA start_idx :
        RawSubDf(g, start_idx, FindEnd(g, EndMarker(T), start_idx)))

\* C13 as stated: on the grid that extract_tables_from_pdf searches, the
\* region of a table with a title row starts at the first row that matches
\* the start pattern: that row is its row at offset 0, and its rows are the
\* rows that follow it in the grid.
C13_AsStated ==
    GridBuilt =>
        \E g \in {Grid} : \A T \in TABLES :
            ~NoStartRow(g, T) =>
                \E p \in {FirstStartRow(g, T)}, r \in {Region(g, T)} :
                    /\ Len(r.rows) >= 1
                    /\ \A i \in 1..Len(r.rows) : r.rows[i] = g.rows[p + i - 1]

\* What holds instead: the region starts at the position that is the index
\* label of the title row, which is further down by the number of all-empty
\* rows removed above the title.
RegionStartsAtLabel ==
    GridBuilt =>
        \E g \in {Grid} : \A T \in TABLES :
            ~NoStartRow(g, T) =>
                \E p \in {FirstStartRow(g, T)}, r \in {Region(g, T)} :
                    \A i \in 1..Len(r.rows) : r.rows[i] = g.rows[g.idx[p] + i]

(***************************************************************************)
(* C14                                                                     *)
(***************************************************************************)
\* The positions (from 1) in the grid g, after position p, of the rows that
\* match the end pattern of T.
EndRowsAfter(g, T, p) ==
    {q \in (p + 1)..Len(g.rows) : RowMatches(EndMarker(T), g.rows[q])}

\* end_idx of extract_subtable_by_markers for T on the grid g, -1 for None.
EndIdx(g, T) == FindEnd(g, EndMarker(T), FindStart(g, StartMarker(T)))

\* C14 as stated: the end boundary of the region of a table is the first
\* row strictly after the start-marker row that matches the end pattern,
\* never the start-marker row itself; the region is never empty; and when
\* no later row matches there is no end boundary and the region runs to the
\* last row of the grid.
C14_AsStated ==
    GridBuilt =>
        \E g \in {Grid} : \A T \in TABLES :
            ~NoStartRow(g, T) =>
                \E p \in {FirstStartRow(g, T)}, r \in {Region(g, T)} :
                \E ends \in {EndRowsAfter(g, T, p)}, end_idx \in {EndIdx(g, T)} :
                    /\ Len(r.rows) >= 1
                    /\ ends # {} => end_idx = SetMin(ends) - 1
                    /\ ends = {} =>
                          /\ end_idx = -1
                          /\ r.rows[Len(r.rows)] = g.rows[Len(g.rows)]

\* What holds instead: the end boundary is the first row that matches the
\* end pattern at a position after the index label of the start-marker row.
EndIsFirstAfterLabel ==
    GridBuilt =>
        \E g \in {Grid} : \A T \in TABLES :
            ~NoStartRow(g, T) =>
                \E p \in {FirstStartRow(g, T)}, end_idx \in {EndIdx(g, T)} :
                \E ends \in {EndRowsAfter(g, T, g.idx[p] + 1)} :
                    /\ end_idx # g.idx[p]
                    /\ end_idx = IF ends = {} THEN -1 ELSE SetMin(ends) - 1

(***************************************************************************)
(* The Sub-table Extractor alone: extract_subtable_by_markers applied to a *)
(* grid, for every header_row_count and for a table identity without a     *)
(* fixed schema                                                            *)
(***************************************************************************)
\* The grids have at most this many rows under the title row.
MaxRows == 4

\* header_row_count goes from 0 to this.
MaxHeaderRowCount == 3

\* Rows of two cells as they come under a title; none is all-empty, the
\* grid being searched after its all-empty rows were removed.
ROW_MENU ==
    { << S("A B"), S("A\rB") >>,
      << S("A"), S("A") >>,
      << NaN, S("A") >>,
      << S(""), S("A B") >>,
      << S("1"), S("2") >> }

\* The grid of a title row of Table 2(A) and the rows under it.
GridOf(rows) ==
    Frame(FALSE, << 0, 1 >>, [p \in 1..(Len(rows) + 1) |-> p - 1],
          << << S(TITLE_2A), NaN >> >> \o rows)

EXTRACT_INPUTS ==
    { [df |-> GridOf(rows), header_row_count |-> n, debug_table_name |-> name] :
         rows \in UNION {[1..k -> ROW_MENU] : k \in 0..MaxRows},
         n \in 0..MaxHeaderRowCount,
         name \in {"Table 2(A)", "Unknown Table"} }

InitExtract ==
    /\ universe = "extract"
    /\ InitProc
    /\ step = "none"
    /\ input \in EXTRACT_INPUTS
    /\ output = None

\* extract_subtable_by_markers(df, start_marker, header_row_count=...,
\* debug_table_name=...), end_marker left at None
ApplyExtract ==
    /\ universe = "extract"
    /\ step = "none"
    /\ step' = "extracted"
    /\ output' = ExtractSubtable(input.df, START_2A, <<>>,
                                 input.header_row_count,
                                 input.debug_table_name)
    /\ UNCHANGED << universe, procVars, input >>

NextExtract == ApplyExtract

SpecExtract == InitExtract /\ [][NextExtract]_vars

(***************************************************************************)
(* C15                                                                     *)
(***************************************************************************)
\* The frame sub is the rows of the grid df from offset a on (the title row
\* being at offset 0), under the labels of df, without the columns that are
\* empty in all of these rows, and without names.
IsRawRowsFrom(sub, df, a) ==
    \E keep \in {{c \in 1..Len(df.cols) :
                    \E p \in (a + 1)..Len(df.rows) : df.rows[p][c] # NaN}} :
        /\ ~sub.named
        /\ sub.cols = Pick(df.cols, keep)
        /\ Len(sub.rows) = Max2(Len(df.rows) - a, 0)
        /\ \A i \in 1..Len(sub.rows) :
              /\ sub.idx[i] = a + i - 1
              /\ sub.rows[i] = Pick(df.rows[a + i], keep)

\* C15 as amended: with a header_row_count greater than 2 no schema is
\* resolved and the extraction does not fail; it returns no names and the
\* raw rows of the region from offset 1 + header_row_count on, the rows
\* under the title row and the header rows, without their all-empty
\* columns; a region of fewer than 1 + header_row_count rows gives its rows
\* from offset 1 on.
C15_RawRowsAfterHeaderRows ==
    (step = "extracted" /\ input.header_row_count > 2) =>
        /\ output.found
        /\ output.headers = None
        /\ IsRawRowsFrom(output.sub, input.df,
              IF Len(input.df.rows) >= 1 + input.header_row_count
              THEN 1 + input.header_row_count ELSE 1)

\* header_row_count=3 on a title row and four rows: one row is returned,
\* the last, and no names.
C15_Witness ==
    /\ step = "extracted"
    /\ input.header_row_count = 3
    /\ Len(input.df.rows) = 5
    /\ output.found
    /\ output.headers = None
    /\ Len(output.sub.rows) = 1
    /\ output.sub.rows[1] = input.df.rows[5]
    /\ output.sub.rows[1] = << S("1"), S("2") >>

\* C15 as stated: the rows returned are those from offset 1 on, every row
\* after the title row.
C15_AsStated ==
    (step = "extracted" /\ input.header_row_count > 2) =>
        /\ output.found
        /\ output.headers = None
        /\ IsRawRowsFrom(output.sub, input.df, 1)

(***************************************************************************)
(* C16                                                                     *)
(***************************************************************************)
\* The text of a header cell: none for an absent cell, otherwise the text
\* with its newlines as spaces, trimmed.
HeaderText(cell) ==
    IF IsStr(cell) THEN Strip(ReplaceChar(cell.s, "\n", " ")) ELSE ""

\* The name the specification gives to the column at index idx (from 0)
\* with the header cells top and bottom.
CombinedName(top, bottom, idx) ==
    LET t == HeaderText(top)
        b == HeaderText(bottom)
    IN  IF t = "" /\ b = "" THEN "Unnamed_" \o ToString(idx)
        ELSE IF b = "" THEN t
        ELSE IF t = "" THEN b
        ELSE IF StartsWith(b, t) THEN b
        ELSE t \o " " \o b

\* extract_subtable_by_markers was applied with two header rows to a table
\* identity without a fixed schema, on a region that has the two rows.
GenericHeader ==
    /\ step = "extracted"
    /\ input.header_row_count = 2
    /\ input.debug_table_name = "Unknown Table"
    /\ Len(input.df.rows) >= 3

\* C16 as stated: for an unrecognized table identity with two header rows,
\* the name of the column at index i is Unnamed_<i> when both header cells
\* are empty or absent, the non-empty cell when one is empty or absent, the
\* bottom cell when it starts with the top cell, and otherwise the top
\* cell, a space and the bottom cell.
C16_AsStated ==
    GenericHeader =>
        \A c \in 1..Len(input.df.cols) :
            output.headers.list[c] =
                CombinedName(input.df.rows[2][c], input.df.rows[3][c], c - 1)

\* What holds: the names are as stated in the columns whose two header
\* cells are texts, empty or not; an absent cell counts as the text "nan".
CombinesTextCells ==
    GenericHeader =>
        \A c \in 1..Len(input.df.cols) :
            \E top \in {input.df.rows[2][c]}, bottom \in {input.df.rows[3][c]} :
                output.headers.list[c] =
                    CombinedName(S(AsStr(top)), S(AsStr(bottom)), c - 1)

(***************************************************************************)
(* C17                                                                     *)
(***************************************************************************)
\* extract_subtable_by_markers assigned a schema to the table it returned.
SchemaAssigned ==
    /\ step = "extracted"
    /\ output.found
    /\ output.headers # None

\* C17 as stated: when a schema is assigned (header_row_count 1 or 2) the
\* columns of the returned table have pairwise distinct names, the names
\* being those after the whitespace and carriage-return normalization.
C17_AsStated ==
    SchemaAssigned =>
        /\ input.header_row_count \in {1, 2}
        /\ \A c, d \in 1..Len(output.sub.cols) :
              c # d => output.sub.cols[c] # output.sub.cols[d]

\* What holds: the columns kept are told apart by their names before the
\* normalization; each carries the normalized form of one of the distinct
\* names of the schema, no two of them of the same name.
DistinctBeforeNormalization ==
    SchemaAssigned =>
        /\ input.header_row_count \in {1, 2}
        /\ \E names \in {Range(output.headers.list)} :
              /\ Len(output.sub.cols) <= Cardinality(names)
              /\ \A c \in 1..Len(output.sub.cols) :
                    \E n \in names : output.sub.cols[c] = NormalizeName(n)

(***************************************************************************)
(* Command.handle from its start: download_latest_srldc_pdf, then the      *)
(* extraction.  input is today, output the download directory and the      *)
(* dates examined by the call, step the place in the loop over the dates   *)
(***************************************************************************)
\* dates_to_try
DatesToTry(today) == << today, today - 1 >>

\* What requests.get and the writing of the file come to: the pdf is
\* written; the server answers 404; another error of requests before the
\* file is opened; an error of requests while the chunks are written, which
\* leaves the file begun; an exception that is not one of requests.
DOWNLOADS == {"downloaded", "404", "error", "broken", "oserror"}

\* The outcomes after which the loop goes on to the next date.
FAILED == {"404", "error", "broken"}

\* What tabula finds in a pdf of the download directory: the tables of a
\* daily report, or none.
DownloadedReports ==
    { << Title2A, Body2ARevised, Title2C, Body2C, Title3A >>, << >> }

\* A download directory that answers for every file, whatever is in it.
Exists_Never(files, date) == FALSE

\* os.path.exists(local_file_path); files gives, for the dates that have a
\* local pdf, the tables that tabula finds in it.
Exists(files, date) == date \in DOMAIN files

NoDownload == [files |-> EmptyDict, log |-> <<>>]

InitFetch ==
    /\ universe = "fetch"
    /\ InitProc
    /\ step = "none"
    /\ input = 0
    /\ output = NoDownload

\* handle is called and calls download_latest_srldc_pdf.
BeginDownload ==
    /\ universe = "fetch"
    /\ pc = "idle"
    /\ runs < MaxRuns
    /\ \E today \in Dates \ {1} : input' = today
    /\ pc' = "download"
    /\ step' = "date_1"
    /\ output' = [output EXCEPT !.log = <<>>]
    /\ runs' = runs + 1
    /\ tables' = <<>>
    /\ report_date' = 0
    /\ found' = [T \in TABLES |-> "pending"]
    /\ combined_json_data' = EmptyDict
    /\ todo' = <<>>
    /\ calls' = <<>>
    /\ err' = ""
    /\ storeAtStart' = store
    /\ UNCHANGED << universe, store, nextId, exportFile, last >>

\* One turn of the loop over dates_to_try: the local file is there and is
\* returned, or the download is attempted.  A pdf that is returned goes to
\* extract_tables_from_pdf.
ExamineDate ==
    /\ pc = "download"
    /\ step \in {"date_1", "date_2"}
    /\ \E current_date \in {DatesToTry(input)[IF step = "date_1" THEN 1 ELSE 2]} :
       \E had \in {Exists(output.files, current_date)} :
       \E how \in (IF had THEN {"local"} ELSE DOWNLOADS),
          written \in DownloadedReports :
          /\ output' =
                [files |-> IF how \in {"downloaded", "broken"}
                           THEN DictSet(output.files, current_date, written)
                           ELSE output.files,
                 log |-> Append(output.log,
                            [date |-> current_date, how |-> how,
                             had |-> current_date \in DOMAIN output.files,
                             requested |-> how \in DOWNLOADS])]
          /\ IF how \in {"local", "downloaded"}
             THEN /\ pc' = "read"
                  /\ step' = "returned"
                  /\ report_date' = current_date
                  /\ tables' = output'.files[current_date]
                  /\ err' = err
             ELSE IF how = "oserror"
             THEN /\ pc' = "raised"
                  /\ step' = "returned"
                  /\ err' = "OSError"
                  /\ UNCHANGED << report_date, tables >>
             ELSE /\ pc' = "download"
                  /\ step' = IF step = "date_1" THEN "date_2" ELSE "exhausted"
                  /\ UNCHANGED << report_date, tables, err >>
    /\ UNCHANGED << universe, runs, found, combined_json_data, todo, calls,
                    store, nextId, exportFile, last, storeAtStart, input >>

\* The loop is over without a pdf: (None, None, None) is returned.
GiveUp ==
    /\ pc = "download"
    /\ step = "exhausted"
    /\ pc' = "unavailable"
    /\ step' = "returned"
    /\ UNCHANGED << universe, runs, tables, report_date, found,
                    combined_json_data, todo, calls, store, nextId, exportFile,
                    err, last, storeAtStart, input, output >>

\* handle returns at "No PDF report was successfully downloaded".
ReturnUnavailable ==
    /\ pc = "unavailable"
    /\ pc' = "idle"
    /\ UNCHANGED << universe, runs, tables, report_date, found,
                    combined_json_data, todo, calls, store, nextId, exportFile,
                    err, last, storeAtStart, pureVars >>

NextFetch ==
    \/ BeginDownload
    \/ ExamineDate
    \/ GiveUp
    \/ ReturnUnavailable
    \/ ReadPdf
    \/ \E T \in TABLES : ExtractTable(T)
    \/ \E T \in TABLES : UpsertRow(T)
    \/ \E T \in TABLES : EndUpserts(T)
    \/ WriteExport
    \/ Finish

\* Runs of the whole command, sharing the download directory and the store.
SpecFetch == InitFetch /\ [][NextFetch]_vars

(***************************************************************************)
(* C18                                                                     *)
(***************************************************************************)
\* The dates examined by the call, each with what became of it: "had" says
\* that the local file was there when the date was examined, "requested"
\* that a network request was made for it.
FetchLog == output.log

\* A pdf was obtained for the last date examined.
Obtained(log) ==
    log # <<>> /\ log[Len(log)].how \in {"local", "downloaded"}

\* The places of the command from the reading of the pdf on.
Extracting ==
    {"read", "extract_2A", "upsert_2A", "extract_2C", "upsert_2C", "export",
     "done", "aborted"}

\* The dates are examined in the order today, the day before; a date is
\* requested from the network only if its local file is not there, and a
\* date whose file is there is obtained from it; every date before the last
\* one examined has failed.
ExaminedInOrder(log, today) ==
    /\ Len(log) <= 2
    /\ \A i \in 1..Len(log) :
          /\ log[i].date = IF i = 1 THEN today ELSE today - 1
          /\ log[i].requested = ~log[i].had
          /\ log[i].had <=> log[i].how = "local"
          /\ i < Len(log) => log[i].how \in FAILED

\* C18: the fetch step examines today and then the day before, and stops
\* at the first date whose pdf is there locally or is downloaded; it makes
\* no request for a date whose local file is there and does not examine the
\* day before once it has the pdf of today; it reports that no pdf is
\* available only when both dates have failed, and handle then returns
\* without reading a pdf, with no update_or_create and no export.
C18_FetchOrder ==
    [][ /\ ExaminedInOrder(FetchLog', input')
        /\ FetchLog' # FetchLog =>
              \/ /\ FetchLog' = <<>>
                 /\ pc' = "download"
              \/ /\ pc = "download"
                 /\ ~Obtained(FetchLog)
                 /\ SubSeq(FetchLog', 1, Len(FetchLog)) = FetchLog
        /\ pc' \in Extracting =>
              /\ Obtained(FetchLog')
              /\ report_date' = FetchLog'[Len(FetchLog')].date
              /\ Exists(output'.files, report_date')
              /\ tables' = output'.files[report_date']
        /\ pc' = "unavailable" =>
              /\ Len(FetchLog') = 2
              /\ \A i \in 1..2 : FetchLog'[i].how \in FAILED
              /\ tables' = <<>>
              /\ calls' = <<>>
              /\ found' = [T \in TABLES |-> "pending"]
              /\ store' = storeAtStart'
              /\ exportFile' = exportFile
        /\ pc = "unavailable" =>
              /\ pc' = "idle"
              /\ store' = store
              /\ exportFile' = exportFile ]_vars

\* A second run: the download of today fails, the pdf of the day before is
\* there from the first run and is read without a request.
C18_Witness ==
    /\ runs = 2
    /\ pc = "done"
    /\ store # {}
    /\ Len(FetchLog) = 2
    /\ FetchLog[1] = [date |-> input, how |-> "404", had |-> FALSE,
                      requested |-> TRUE]
    /\ FetchLog[2] = [date |-> input - 1, how |-> "local", had |-> TRUE,
                      requested |-> FALSE]
    /\ report_date = input - 1
    /\ tables = output.files[input - 1]

====
